---- MODULE Spec2Model ----
(***************************************************************************)
(* The form-submission script: run() (config.ts), handleRecaptcha,         *)
(* DynamicFormPage (fillRow, submit, waitForFormReady) and readExcelData,  *)
(* driven against a page whose host application changes it on its own.     *)
(* One action per awaited call of the script; the host application's       *)
(* changes to the page are the Env actions.                                *)
(***************************************************************************)
EXTENDS Integers, Sequences, FiniteSets, TLC

\* ------------------------------------------------------------------ bounds
MaxPopups == 2      \* popup candidates in the render tree (component harness)
RunPopups == 1      \* popup candidates in the render tree (whole script)
MaxBatch == 2       \* data rows in the sheet
MaxCalls == 2       \* successive calls in the component harnesses
MaxElems == 2       \* elements sharing one id prefix (component harness)

\* ------------------------------------------------------- config.ts, values
SHEET_NAME == "data"
MAX_ROWS == 50

Cell(t, v) == [t |-> t, v |-> v]
NoCell == Cell("empty", "")

\* String(value ?? ""): a number prints its digits, a boolean its name.
ToStr(c) ==
    CASE c.t = "empty" -> ""
      [] c.t = "bool" -> (IF c.v = "1" THEN "true" ELSE "false")
      [] OTHER -> c.v

\* ------------------------------------------------------------- excel.ts
Min(a, b) == IF a < b THEN a ELSE b

\* XLSX.utils.sheet_to_json(sheet, {defval: ""}): no sheet gives no rows;
\* each data row becomes the header's columns paired with the row's cells,
\* a missing cell with "".
RECURSIVE RowToJson(_, _)
RowToJson(header, cells) ==
    IF header = <<>> THEN <<>>
    ELSE << <<Head(header), IF Head(cells) = NoCell THEN Cell("str", "") ELSE Head(cells)>> >>
         \o RowToJson(Tail(header), Tail(cells))

Undefined == [undefined |-> TRUE]

SheetToJson(sheet) ==
    IF "undefined" \in DOMAIN sheet THEN <<>>
    ELSE [k \in 1..Len(sheet.cells) |-> RowToJson(sheet.header, sheet.cells[k])]

SheetLookup(wb, name) ==
    IF name \in DOMAIN wb.Sheets THEN wb.Sheets[name] ELSE Undefined

\* readExcelData(): [threw |-> TRUE] when XLSX.readFile throws, else the rows.
readExcelData(f) ==
    IF ~f.readable THEN [threw |-> TRUE, rows |-> <<>>]
    ELSE LET json == SheetToJson(SheetLookup(f, SHEET_NAME))
         IN  [threw |-> FALSE, rows |-> SubSeq(json, 1, Min(Len(json), MAX_ROWS))]

\* The spreadsheets of the model.
Header == <<"notes", "employer_identification_number", "company_name">>
CellsA == <<Cell("str", "n"), Cell("num", "42"), NoCell>>
CellRows == {CellsA}

RECURSIVE SeqsUpTo(_, _)
SeqsUpTo(S, n) ==
    IF n = 0 THEN {<<>>}
    ELSE LET shorter == SeqsUpTo(S, n - 1)
         IN  shorter \cup {Append(s, x) : s \in {t \in shorter : Len(t) = n - 1}, x \in S}

Sheet(cells) == [header |-> Header, cells |-> cells]
Unreadable == [readable |-> FALSE, Sheets |-> <<>>]
Workbook(sheets) == [readable |-> TRUE, Sheets |-> sheets]
Files ==
    {Unreadable, Workbook([n \in {"other"} |-> Sheet(<<CellsA>>)])}
    \cup {Workbook([n \in {SHEET_NAME} |-> Sheet(cs)]) : cs \in SeqsUpTo(CellRows, MaxBatch)}

\* ------------------------------------------------------------------ state
VARIABLES
    pc,         \* run(): the awaited call it is at
    browser,    \* "none" | "open" | "closed"
    closeCalls, \* invocations of browser.close()
    file,       \* the spreadsheet at EXCEL_PATH
    rows,       \* run(): const rows
    i,          \* run(): the loop index (0-based, as in the code)
    log,        \* the per-record operations called and returned, then close
    popups,     \* the .bubble-element.Popup elements, in DOM order
    grey,       \* a .greyout element is visible
    rpc,        \* handleRecaptcha: the awaited call it is at
    count,      \* handleRecaptcha: const count
    rcOut,      \* handleRecaptcha: "ok" (returned) | "err" (threw)
    rcClicks,   \* handleRecaptcha: popups whose button this call clicked
    rcWaits,    \* handleRecaptcha: bounded waits this call performed
    dom,        \* the form: its submit control and its id-prefixed elements
    fpc,        \* fillRow: the awaited call it is at
    col,        \* fillRow: the entry of Object.entries(row) it is at
    fOut,       \* fillRow: "ok" (returned) | "err" (threw)
    skipped,    \* fillRow: entries this call skipped
    written,    \* fillRow: entries this call wrote
    result,     \* run(): "running" | "completed" | "caught" | "rejected"
    calls       \* component harness: calls made

rcVars == <<popups, grey, rpc, count, rcOut, rcClicks, rcWaits>>
fillVars == <<dom, fpc, col, fOut, skipped, written>>
runVars == <<pc, browser, closeCalls, file, rows, i, log, result, calls>>
vars == <<pc, browser, closeCalls, file, rows, i, log, result, calls,
          popups, grey, rpc, count, rcOut, rcClicks, rcWaits,
          dom, fpc, col, fOut, skipped, written>>

\* ---------------------------------------------------- handleRecaptcha.ts
\* A popup candidate: "hidden", "bare" (visible, its button not yet),
\* "ready" (visible with its button), "clicked" (visible, its button clicked).
IsVisible(k) == k \in 1..Len(popups) /\ popups[k] # "hidden"
ButtonVisible(k) == k \in 1..Len(popups) /\ popups[k] \in {"ready", "clicked"}

\* allPopups.nth(n) is element n + 1 of the sequence.
Nth(n) == n + 1

\* Variant: the first candidate instead of the last.
popupFirst == Nth(0)

\* const popup = allPopups.nth(count - 1)
popup == Nth(count - 1)

RcReturn(out) == rpc' = "ret" /\ rcOut' = out

\* const count = await allPopups.count(); if (count === 0) return
RcCount ==
    /\ rpc = "count"
    /\ count' = Len(popups)
    /\ IF count' = 0
       THEN RcReturn("ok")
       ELSE rpc' = "isVisible" /\ rcOut' = rcOut
    /\ UNCHANGED <<popups, grey, rcClicks, rcWaits>>

\* Variant: no early return for a hidden candidate.
RcIsVisibleNoReturn ==
    /\ rpc = "isVisible"
    /\ rpc' = "waitButton"
    /\ UNCHANGED <<popups, grey, count, rcOut, rcClicks, rcWaits>>

\* if (!(await popup.isVisible())) return
RcIsVisible ==
    /\ rpc = "isVisible"
    /\ IF IsVisible(popup)
       THEN rpc' = "waitButton" /\ rcOut' = rcOut
       ELSE RcReturn("ok")
    /\ UNCHANGED <<popups, grey, count, rcClicks, rcWaits>>

\* await captchaButton.waitFor({ state: "visible" })
RcWaitButton ==
    /\ rpc = "waitButton"
    /\ ButtonVisible(popup)
    /\ rpc' = "click"
    /\ rcWaits' = rcWaits + 1
    /\ UNCHANGED <<popups, grey, count, rcOut, rcClicks>>

RcWaitButtonTimeout ==
    /\ rpc = "waitButton"
    /\ ~ButtonVisible(popup)
    /\ RcReturn("err")
    /\ rcWaits' = rcWaits + 1
    /\ UNCHANGED <<popups, grey, count, rcClicks>>

\* await captchaButton.click({ force: true })
RcClick ==
    /\ rpc = "click"
    /\ rpc' = "waitHidden"
    /\ rcClicks' = Append(rcClicks, popup)
    /\ popups' = IF ButtonVisible(popup)
                 THEN [popups EXCEPT ![popup] = "clicked"]
                 ELSE popups
    /\ UNCHANGED <<grey, count, rcOut, rcWaits>>

\* The button went away after the wait: the click may also throw.
RcClickFail ==
    /\ rpc = "click"
    /\ ~ButtonVisible(popup)
    /\ RcReturn("err")
    /\ UNCHANGED <<popups, grey, count, rcClicks, rcWaits>>

\* await popup.waitFor({ state: "hidden" })
RcWaitHidden ==
    /\ rpc = "waitHidden"
    /\ ~IsVisible(popup)
    /\ rpc' = "greyCount"
    /\ rcWaits' = rcWaits + 1
    /\ UNCHANGED <<popups, grey, count, rcOut, rcClicks>>

RcWaitHiddenTimeout ==
    /\ rpc = "waitHidden"
    /\ IsVisible(popup)
    /\ RcReturn("err")
    /\ rcWaits' = rcWaits + 1
    /\ UNCHANGED <<popups, grey, count, rcClicks>>

\* Variant: no look at the dimming overlay.
RcGreyCountSkip ==
    /\ rpc = "greyCount"
    /\ RcReturn("ok")
    /\ UNCHANGED <<popups, grey, count, rcClicks, rcWaits>>

\* if (await greyoutVisible.count() > 0)
RcGreyCount ==
    /\ rpc = "greyCount"
    /\ IF grey
       THEN rpc' = "greyWait" /\ rcOut' = rcOut
       ELSE RcReturn("ok")
    /\ UNCHANGED <<popups, grey, count, rcClicks, rcWaits>>

\* await greyoutVisible.waitFor({ state: "hidden" })
RcGreyWait ==
    /\ rpc = "greyWait"
    /\ ~grey
    /\ RcReturn("ok")
    /\ rcWaits' = rcWaits + 1
    /\ UNCHANGED <<popups, grey, count, rcClicks>>

RcGreyWaitTimeout ==
    /\ rpc = "greyWait"
    /\ grey
    /\ RcReturn("err")
    /\ rcWaits' = rcWaits + 1
    /\ UNCHANGED <<popups, grey, count, rcClicks>>

handleRecaptcha ==
    \/ RcCount \/ RcIsVisible
    \/ RcWaitButton \/ RcWaitButtonTimeout
    \/ RcClick \/ RcClickFail
    \/ RcWaitHidden \/ RcWaitHiddenTimeout
    \/ RcGreyCount \/ RcGreyWait \/ RcGreyWaitTimeout

\* A call of handleRecaptcha(page) and the caller's resumption.
RcCall ==
    /\ rpc' = "count"
    /\ count' = 0
    /\ rcOut' = "none"
    /\ rcClicks' = <<>>
    /\ rcWaits' = 0

\* --------------------------------------------- the host application's page
\* The host renders a popup at any point, changes one, shows or hides the
\* dimming overlay; it never removes a popup from the DOM.
EnvAppendPopup(max) ==
    /\ Len(popups) < max
    /\ \E s \in {"hidden", "bare", "ready"} : popups' = Append(popups, s)
    /\ UNCHANGED <<grey, rpc, count, rcOut, rcClicks, rcWaits>>

EnvSetPopup ==
    /\ \E k \in 1..Len(popups), s \in {"hidden", "bare", "ready"} :
          /\ popups[k] # s
          /\ popups' = [popups EXCEPT ![k] = s]
    /\ UNCHANGED <<grey, rpc, count, rcOut, rcClicks, rcWaits>>

EnvGrey ==
    /\ grey' = ~grey
    /\ UNCHANGED <<popups, rpc, count, rcOut, rcClicks, rcWaits>>

EnvPopups(max) == EnvAppendPopup(max) \/ EnvSetPopup \/ EnvGrey

\* ------------------------------------------------- DynamicFormPage (form)
idPatterns ==
    [c \in {"employer_identification_number", "company_name", "sector",
            "company_address", "automation_tool", "annual_automation_saving",
            "date_of_first_project"} |->
        CASE c = "employer_identification_number" -> "ein_input_field_"
          [] c = "company_name" -> "company_name_input_field_"
          [] c = "sector" -> "sector_input_field_"
          [] c = "company_address" -> "address_input_field_"
          [] c = "automation_tool" -> "automation_tool_input_field_"
          [] c = "annual_automation_saving" -> "annual_saving_input_field_"
          [] OTHER -> "date_input_field_"]

validTags == {"input", "textarea", "select"}

\* The elements whose id begins with prefix p, in DOM order.
Matches(p) == IF p \in DOMAIN dom.fields THEN dom.fields[p] ELSE <<>>

\* page.locator(`[id^="${prefix}"]:visible`): the visible ones among them.
VisibleIdx(p) == {k \in 1..Len(Matches(p)) : Matches(p)[k].vis}

\* Variant: the first match, visible or not.
FirstMatch(p) == 1

\* locator.first(), resolved when an operation uses it
First(p) == CHOOSE k \in VisibleIdx(p) : \A j \in VisibleIdx(p) : k <= j

row == rows[i + 1]
column == row[col][1]
value == row[col][2]
prefix == idPatterns[column]

FillReturn(out) == fpc' = "ret" /\ fOut' = out

\* Variant: an anomaly throws.
FillSkipThrows ==
    /\ FillReturn("err")
    /\ UNCHANGED <<dom, col, skipped, written>>

\* console.log(...); continue
FillSkip ==
    /\ fpc' = "head"
    /\ col' = col + 1
    /\ skipped' = skipped \cup {col}
    /\ UNCHANGED <<dom, fOut, written>>

\* for (const [column, value] of Object.entries(row)): the prefix lookup and
\* await locator.count()
FillHead ==
    /\ fpc = "head"
    /\ IF col > Len(row)
       THEN FillReturn("ok") /\ UNCHANGED <<dom, col, skipped, written>>
       ELSE IF column \notin DOMAIN idPatterns
            THEN FillSkip
            ELSE IF Cardinality(VisibleIdx(prefix)) = 0
                 THEN FillSkip
                 ELSE fpc' = "waitFor" /\ UNCHANGED <<dom, col, fOut, skipped, written>>

\* await input.waitFor({ state: "visible" })
FillWaitFor ==
    /\ fpc = "waitFor"
    /\ VisibleIdx(prefix) # {}
    /\ fpc' = "tag"
    /\ UNCHANGED <<dom, col, fOut, skipped, written>>

FillWaitForTimeout ==
    /\ fpc = "waitFor"
    /\ VisibleIdx(prefix) = {}
    /\ FillReturn("err")
    /\ UNCHANGED <<dom, col, skipped, written>>

\* const tagName = await input.evaluate(...); validTags.includes(tagName)
FillTag ==
    /\ fpc = "tag"
    /\ VisibleIdx(prefix) # {}
    /\ IF Matches(prefix)[First(prefix)].tag \in validTags
       THEN fpc' = "fill" /\ UNCHANGED <<dom, col, fOut, skipped, written>>
       ELSE FillSkip

FillTagTimeout ==
    /\ fpc = "tag"
    /\ VisibleIdx(prefix) = {}
    /\ FillReturn("err")
    /\ UNCHANGED <<dom, col, skipped, written>>

\* await input.fill(String(value ?? ""))
FillWrite ==
    /\ fpc = "fill"
    /\ VisibleIdx(prefix) # {}
    /\ Matches(prefix)[First(prefix)].tag \in validTags
    /\ dom' = [dom EXCEPT !.fields[prefix][First(prefix)].val = ToStr(value)]
    /\ fpc' = "head"
    /\ col' = col + 1
    /\ written' = written \cup {col}
    /\ UNCHANGED <<fOut, skipped>>

\* No visible match any more, or one that cannot be filled: fill throws.
FillWriteFail ==
    /\ fpc = "fill"
    /\ \/ VisibleIdx(prefix) = {}
       \/ /\ VisibleIdx(prefix) # {}
          /\ Matches(prefix)[First(prefix)].tag \notin validTags
    /\ FillReturn("err")
    /\ UNCHANGED <<dom, col, skipped, written>>

fillRow ==
    \/ FillHead
    \/ FillWaitFor \/ FillWaitForTimeout
    \/ FillTag \/ FillTagTimeout
    \/ FillWrite \/ FillWriteFail

FillCall ==
    /\ fpc' = "head"
    /\ col' = 1
    /\ fOut' = "none"
    /\ skipped' = {}
    /\ written' = {}

\* ------------------------------------------------ the host's form instances
Elem(vis, tag) == [vis |-> vis, tag |-> tag, val |-> ""]
EIN == "ein_input_field_"
NAME == "company_name_input_field_"
SECTOR == "sector_input_field_"
Form(ein, name, sector) ==
    [submit |-> TRUE, pending |-> FALSE,
     fields |-> [p \in {EIN, NAME, SECTOR} |->
                   CASE p = EIN -> ein [] p = NAME -> name [] OTHER -> sector]]
Blank ==
    [submit |-> FALSE, pending |-> TRUE,
     fields |-> [p \in {EIN, NAME, SECTOR} |-> <<>>]]
FormGens ==
    { Form(<<Elem(FALSE, "input"), Elem(TRUE, "input")>>, <<Elem(TRUE, "textarea")>>, <<>>),
      Form(<<Elem(TRUE, "div")>>, <<Elem(TRUE, "input")>>, <<>>),
      Form(<<>>, <<Elem(TRUE, "div")>>, <<Elem(TRUE, "input")>>) }

\* The host replaces the form after a submission (and renders the first one).
EnvRegenerate ==
    /\ dom.pending
    /\ dom' \in FormGens
    /\ UNCHANGED <<fpc, col, fOut, skipped, written>>

\* The host shows or hides an element of the form.
EnvToggleField ==
    /\ \E p \in DOMAIN dom.fields : \E k \in 1..Len(dom.fields[p]) :
          dom' = [dom EXCEPT !.fields[p][k].vis = ~@]
    /\ UNCHANGED <<fpc, col, fOut, skipped, written>>

\* The host hides an element of the form.
EnvHideField ==
    /\ \E p \in DOMAIN dom.fields : \E k \in 1..Len(dom.fields[p]) :
          /\ dom.fields[p][k].vis
          /\ dom' = [dom EXCEPT !.fields[p][k].vis = FALSE]
    /\ UNCHANGED <<fpc, col, fOut, skipped, written>>

\* ------------------------------------------------------ config.ts: run()
\* The log has one entry for each operation called on a record, "call" until
\* the operation returns ("ok") or throws ("err").
Ev(op, rec, ph) == [op |-> op, rec |-> rec, ph |-> ph]
Called(op, ph) == log' = Append(log, Ev(op, i + 1, ph))
Returned(ph) == log' = [log EXCEPT ![Len(log)].ph = ph]

pageVars == <<popups, grey, rpc, count, rcOut, rcClicks, rcWaits,
              dom, fpc, col, fOut, skipped, written>>

\* const browser = await chromium.launch(...)
Launch ==
    /\ pc = "launch"
    /\ \/ browser' = "open" /\ pc' = "newPage" /\ result' = result
       \/ browser' = browser /\ pc' = "done" /\ result' = "rejected"
    /\ UNCHANGED <<closeCalls, file, rows, i, log, calls, pageVars>>

\* const page = await browser.newPage(), before the try block
\* const page = await browser.newPage(), before the try block: a rejection
\* rejects run() itself
NewPage ==
    /\ pc = "newPage"
    /\ \/ pc' = "goto" /\ result' = result
       \/ pc' = "done" /\ result' = "rejected"
    /\ UNCHANGED <<browser, closeCalls, file, rows, i, log, calls, pageVars>>

\* login.goto(), login.login(...), login.clickStart(): each returns or throws
Authenticate ==
    /\ pc \in {"goto", "login", "clickStart"}
    /\ \E ok \in BOOLEAN :
          pc' = IF ~ok THEN "catch"
                ELSE CASE pc = "goto" -> "login"
                       [] pc = "login" -> "clickStart"
                       [] OTHER -> "read"
    /\ UNCHANGED <<browser, closeCalls, file, rows, i, log, result, calls, pageVars>>

\* const rows = readExcelData()
Read ==
    /\ pc = "read"
    /\ LET r == readExcelData(file)
       IN  IF r.threw
           THEN pc' = "catch" /\ rows' = rows
           ELSE pc' = "loop" /\ rows' = r.rows
    /\ i' = 0
    /\ UNCHANGED <<browser, closeCalls, file, log, result, calls, pageVars>>

\* for (let i = 0; i < rows.length; i++)
\* Variant: one iteration too many.
LoopCondOffByOne == i <= Len(rows)

LoopCond == i < Len(rows)

Loop ==
    /\ pc = "loop"
    /\ IF LoopCond
       THEN /\ pc' = "waitBtn"
            /\ Called("waitForFormReady", "call")
            /\ result' = result
       ELSE /\ pc' = "finally"
            /\ log' = log
            /\ result' = "completed"
    /\ UNCHANGED <<browser, closeCalls, file, rows, i, calls, pageVars>>

\* form.waitForFormReady(): the submit control, then input:visible, then 150 ms
InputVisible ==
    \E p \in DOMAIN dom.fields : \E k \in 1..Len(dom.fields[p]) :
        dom.fields[p][k].vis /\ dom.fields[p][k].tag = "input"

WaitSubmitControl ==
    /\ pc = "waitBtn"
    /\ IF dom.submit
       THEN pc' = "waitInput" /\ log' = log
       ELSE pc' = "catch" /\ Returned("err")
    /\ UNCHANGED <<browser, closeCalls, file, rows, i, result, calls, pageVars>>

WaitInput ==
    /\ pc = "waitInput"
    /\ IF InputVisible
       THEN pc' = "rc1" /\ Returned("ok")
       ELSE pc' = "catch" /\ Returned("err")
    /\ UNCHANGED <<browser, closeCalls, file, rows, i, result, calls, pageVars>>

\* await handleRecaptcha(page): the call, and the resumption of run()
AfterRc ==
    CASE pc = "rc1" -> "fill" [] pc = "rc2" -> "submit" [] OTHER -> "next"

\* Variant: a throw caught inside the loop, which goes on with the next row.
AfterRcErrContinue == IF rcOut = "ok" THEN AfterRc ELSE "next"

AfterRcOut == IF rcOut = "ok" THEN AfterRc ELSE "catch"

RunRecaptcha ==
    /\ pc \in {"rc1", "rc2", "rc3"}
    /\ rpc = "idle"
    /\ RcCall
    /\ Called("handleRecaptcha", "call")
    /\ UNCHANGED <<pc, browser, closeCalls, file, rows, i, result, calls,
                   popups, grey, dom, fpc, col, fOut, skipped, written>>

RunRecaptchaRet ==
    /\ pc \in {"rc1", "rc2", "rc3"}
    /\ rpc = "ret"
    /\ rpc' = "idle"
    /\ Returned(rcOut)
    /\ pc' = AfterRcOut
    /\ UNCHANGED <<browser, closeCalls, file, rows, i, result, calls,
                   popups, grey, count, rcOut, rcClicks, rcWaits,
                   dom, fpc, col, fOut, skipped, written>>

\* the loop's i++ after the third handleRecaptcha
NextRow ==
    /\ pc = "next"
    /\ i' = i + 1
    /\ pc' = "loop"
    /\ UNCHANGED <<browser, closeCalls, file, rows, log, result, calls, pageVars>>

\* await form.fillRow(row), then the second handleRecaptcha
\* Variant: no handleRecaptcha between fillRow and submit.
AfterFillSubmit == "submit"

AfterFill == "rc2"

RunFillRow ==
    /\ pc = "fill"
    /\ fpc = "idle"
    /\ FillCall
    /\ Called("fillRow", "call")
    /\ UNCHANGED <<pc, browser, closeCalls, file, rows, i, result, calls,
                   popups, grey, rpc, count, rcOut, rcClicks, rcWaits, dom>>

RunFillRowRet ==
    /\ pc = "fill"
    /\ fpc = "ret"
    /\ fpc' = "idle"
    /\ Returned(fOut)
    /\ pc' = IF fOut = "ok" THEN AfterFill ELSE "catch"
    /\ UNCHANGED <<browser, closeCalls, file, rows, i, result, calls,
                   popups, grey, rpc, count, rcOut, rcClicks, rcWaits,
                   dom, col, fOut, skipped, written>>

\* await form.submit(): one click on the submit control, or a timeout when
\* the control is not visible or an overlay keeps the click from it
Overlay == grey \/ \E k \in 1..Len(popups) : popups[k] # "hidden"

Submit ==
    /\ pc = "submit"
    /\ \/ /\ dom.submit
          /\ dom' = [dom EXCEPT !.pending = TRUE]
          /\ Called("submit", "ok")
          /\ pc' = "rc3"
       \/ /\ ~dom.submit \/ Overlay
          /\ dom' = dom
          /\ Called("submit", "err")
          /\ pc' = "catch"
    /\ UNCHANGED <<browser, closeCalls, file, rows, i, result, calls,
                   popups, grey, rpc, count, rcOut, rcClicks, rcWaits,
                   fpc, col, fOut, skipped, written>>

\* catch (error) { console.error(...) }
Catch ==
    /\ pc = "catch"
    /\ pc' = "finally"
    /\ result' = "caught"
    /\ UNCHANGED <<browser, closeCalls, file, rows, i, log, calls, pageVars>>

\* finally { await browser.close() }
Finally ==
    /\ pc = "finally"
    /\ closeCalls' = closeCalls + 1
    /\ browser' = "closed"
    /\ log' = Append(log, Ev("close", 0, "call"))
    /\ pc' = "done"
    /\ UNCHANGED <<file, rows, i, result, calls, pageVars>>

run ==
    \/ Launch \/ NewPage \/ Authenticate \/ Read \/ Loop
    \/ WaitSubmitControl \/ WaitInput
    \/ RunRecaptcha \/ RunRecaptchaRet
    \/ RunFillRow \/ RunFillRowRet
    \/ Submit \/ NextRow \/ Catch \/ Finally

\* ------------------------------------------------------- the whole script
PageInit ==
    /\ popups = <<>>
    /\ grey = FALSE
    /\ rpc = "idle"
    /\ count = 0
    /\ rcOut = "none"
    /\ rcClicks = <<>>
    /\ rcWaits = 0
    /\ fpc = "idle"
    /\ col = 1
    /\ fOut = "none"
    /\ skipped = {}
    /\ written = {}

Init ==
    /\ pc = "launch"
    /\ browser = "none"
    /\ closeCalls = 0
    /\ file \in Files
    /\ rows = <<>>
    /\ i = 0
    /\ log = <<>>
    /\ result = "running"
    /\ calls = 0
    /\ dom = Blank
    /\ PageInit

\* The host's changes are taken where the script next looks at what changed.
Next ==
    \/ run
    \/ handleRecaptcha /\ UNCHANGED <<runVars, fillVars>>
    \/ fillRow /\ UNCHANGED <<runVars, rcVars>>
    \/ pc \in {"rc1", "rc2", "rc3", "submit"} /\ EnvPopups(RunPopups)
          /\ UNCHANGED <<runVars, fillVars>>
    \/ pc \in {"waitBtn", "waitInput", "fill"} /\ (EnvRegenerate \/ EnvHideField)
          /\ UNCHANGED <<runVars, rcVars>>

Spec == Init /\ [][Next]_vars

\* ------------------------------------- handleRecaptcha on every page state
HarnessInit ==
    /\ pc = "harness"
    /\ browser = "open"
    /\ closeCalls = 0
    /\ file = Unreadable
    /\ i = 0
    /\ log = <<>>
    /\ result = "running"
    /\ calls = 0
    /\ PageInit

InitRecaptcha ==
    /\ HarnessInit
    /\ rows = <<>>
    /\ dom = Blank

CallRecaptcha ==
    /\ rpc = "idle"
    /\ calls < MaxCalls
    /\ calls' = calls + 1
    /\ RcCall
    /\ UNCHANGED <<pc, browser, closeCalls, file, rows, i, log, result, popups, grey, fillVars>>

ResumeRecaptcha ==
    /\ rpc = "ret"
    /\ rpc' = "idle"
    /\ UNCHANGED <<runVars, popups, grey, count, rcOut, rcClicks, rcWaits, fillVars>>

NextRecaptcha ==
    \/ CallRecaptcha
    \/ ResumeRecaptcha
    \/ handleRecaptcha /\ UNCHANGED <<runVars, fillVars>>
    \/ EnvPopups(MaxPopups) /\ UNCHANGED <<runVars, fillVars>>

SpecRecaptcha == InitRecaptcha /\ [][NextRecaptcha]_vars

\* ----------------------------------------------- fillRow on every small form
ElemKinds == {Elem(v, t) : v \in BOOLEAN, t \in {"input", "div"}}
FillForms ==
    {Form(e, n, <<>>) : e \in SeqsUpTo(ElemKinds, MaxElems), n \in SeqsUpTo(ElemKinds, 1)}

InitFill ==
    /\ HarnessInit
    /\ rows = <<RowToJson(Header, CellsA)>>
    /\ dom \in FillForms

CallFillRow ==
    /\ fpc = "idle"
    /\ calls < MaxCalls
    /\ calls' = calls + 1
    /\ FillCall
    /\ UNCHANGED <<pc, browser, closeCalls, file, rows, i, log, result, rcVars, dom>>

ResumeFillRow ==
    /\ fpc = "ret"
    /\ fpc' = "idle"
    /\ UNCHANGED <<runVars, rcVars, dom, col, fOut, skipped, written>>

NextFill ==
    \/ CallFillRow
    \/ ResumeFillRow
    \/ fillRow /\ UNCHANGED <<runVars, rcVars>>
    \/ fpc # "idle" /\ EnvToggleField /\ UNCHANGED <<runVars, rcVars>>

SpecFill == InitFill /\ [][NextFill]_vars

\* ================================================================ claims
Last(q) == q[Len(q)]
RecLog ==
    IF log # <<>> /\ Last(log).op = "close" THEN SubSeq(log, 1, Len(log) - 1) ELSE log

\* C1: every terminating run that launched the browser has invoked
\* browser.close() exactly once, after its last page interaction, whichever
\* step failed (browser page creation included).
C1_ClosedOnEveryExit ==
    (pc = "done" /\ browser # "none") =>
        /\ closeCalls = 1
        /\ browser = "closed"
        /\ log # <<>>
        /\ Last(log).op = "close"

\* C2: once a per-record step of record r has thrown, no step of any record
\* is called again and control is at the catch block, the cleanup or the end.
C2_FailureAbandonsBatch ==
    \A k \in 1..Len(log) :
        (log[k].ph = "err" /\ log[k].rec > 0) =>
            /\ \A j \in (k + 1)..Len(log) : log[j].op = "close"
            /\ pc \in {"catch", "finally", "done"}
            /\ i + 1 = log[k].rec
            /\ rpc = "idle" /\ fpc = "idle"

C2_Witness ==
    /\ pc = "done"
    /\ Len(rows) = 2
    /\ \E k \in 1..Len(log) : log[k].ph = "err" /\ log[k].rec = 1 /\ log[k].op = "fillRow"

Steps ==
    <<"waitForFormReady", "handleRecaptcha", "fillRow",
      "handleRecaptcha", "submit", "handleRecaptcha">>
ExpectedEv(n) ==
    Ev(Steps[((n - 1) % Len(Steps)) + 1], ((n - 1) \div Len(Steps)) + 1, "ok")

\* C3: the per-record operations are called in the order waitForFormReady,
\* handleRecaptcha, fillRow, handleRecaptcha, submit, handleRecaptcha, each
\* called only after the one before it returned normally, record after
\* record; only the last operation called may be running or have thrown.
C3_OperationOrder ==
    LET rl == RecLog
    IN  \A n \in 1..Len(rl) :
            \/ rl[n] = ExpectedEv(n)
            \/ /\ n = Len(rl)
               /\ rl[n].ph \in {"call", "err"}
               /\ rl[n] = [ExpectedEv(n) EXCEPT !.ph = rl[n].ph]

C3_Witness ==
    /\ Len(RecLog) = 2 * Len(Steps)
    /\ Last(RecLog) = Ev("handleRecaptcha", 2, "ok")

IsSubmitCall(e) == e.op = "submit"
SubmitCalls == SelectSeq(log, IsSubmitCall)

\* C4: submit is called at most once per loaded record and in file order, the
\* records whose submit was called are a prefix of the loaded batch, no
\* operation of a record is called after one of a later record, and a record
\* whose operation threw is not attempted again.
C4_AtMostOnceInOrder ==
    LET rl == RecLog
        sc == SubmitCalls
    IN  /\ \A k \in 1..Len(sc) : sc[k].rec = k
        /\ \A k \in 1..Len(rl) : rl[k].rec \in 1..Len(rows)
        /\ \A k \in 2..Len(rl) : rl[k - 1].rec <= rl[k].rec
        /\ \A k \in 2..Len(rl) : rl[k - 1].ph = "err" => rl[k].rec > rl[k - 1].rec

C4_Witness ==
    /\ pc = "done"
    /\ Len(SubmitCalls) = 2
    /\ result = "completed"

\* handleRecaptcha returns normally in this step.
RcReturnsOk == rpc # "ret" /\ rpc' = "ret" /\ rcOut' = "ok"

\* C5 as claimed: whenever handleRecaptcha returns normally, no popup
\* candidate and no dimming overlay is visible at that moment.
C5_NoOverlayAtReturn == [][RcReturnsOk => ~Overlay']_vars

\* C5 as amended: whenever handleRecaptcha returns normally after finding the
\* candidate it selected visible, it has clicked that candidate's button once,
\* it went on only after it saw that candidate hidden, and no dimming overlay
\* is visible at the moment of return.
C5_ActedOverlayGone ==
    [][ /\ (RcReturnsOk /\ rpc \notin {"count", "isVisible"}) =>
              /\ rpc \in {"greyCount", "greyWait"}
              /\ ~grey'
              /\ rcClicks' = <<popup>>
        /\ (rpc # "greyCount" /\ rpc' = "greyCount") =>
              /\ rpc = "waitHidden"
              /\ ~IsVisible(popup)
              /\ rcClicks = <<popup>>
      ]_vars

C5_Witness ==
    /\ rpc = "ret"
    /\ rcOut = "ok"
    /\ rcClicks = <<2>>
    /\ rcWaits = 3

\* C6: a call that finds zero candidates, or finds the last candidate not
\* visible, returns without error, without a click or a bounded wait, and
\* changes nothing of the page, however many calls came before it.
C6_NoOpWhenNothingVisible ==
    [][ /\ (rpc = "count" /\ rpc' # rpc) =>
              /\ popups' = popups /\ grey' = grey
              /\ rcClicks' = <<>> /\ rcWaits' = 0
              /\ Len(popups) = 0 => (rpc' = "ret" /\ rcOut' = "ok")
        /\ (rpc = "isVisible" /\ rpc' # rpc) =>
              /\ popups' = popups /\ grey' = grey
              /\ rcClicks' = <<>> /\ rcWaits' = 0
              /\ (popup = Len(popups) /\ ~IsVisible(Len(popups))) =>
                    (rpc' = "ret" /\ rcOut' = "ok")
      ]_vars

C6_Witness ==
    /\ calls = MaxCalls
    /\ rpc = "ret"
    /\ rcOut = "ok"
    /\ rcClicks = <<>>
    /\ rcWaits = 0
    /\ Len(popups) = 2
    /\ popups[1] # "hidden"
    /\ popups[2] = "hidden"
    /\ grey

\* Of the candidates enumerated, only the last is visible, with its button.
OnlyLastReady ==
    /\ count >= 1
    /\ count = Len(popups)
    /\ popups[count] = "ready"
    /\ \A k \in 1..(count - 1) : popups[k] = "hidden"

\* C7: with only the last of the enumerated candidates visible, a call clicks
\* once, on the button inside that last candidate; no call clicks more than
\* once or on an earlier candidate, and a wait that times out ends the call
\* with the error and without another click.
C7_OneClickOnLast ==
    /\ [](Len(rcClicks) <= 1)
    /\ [][ /\ rcClicks' # rcClicks =>
                 \/ rcClicks' = <<>>
                 \/ rpc = "click" /\ rcClicks = <<>> /\ rcClicks' = <<count>>
           /\ (OnlyLastReady /\ rpc = "isVisible" /\ rpc' # rpc) => rpc' = "waitButton"
           /\ (OnlyLastReady /\ rpc = "waitButton" /\ rpc' # rpc) => rpc' = "click"
           /\ (OnlyLastReady /\ rpc = "click" /\ rpc' # rpc) =>
                 /\ rpc' = "waitHidden"
                 /\ rcClicks' = <<count>>
                 /\ popups' = [popups EXCEPT ![count] = "clicked"]
           /\ (rcOut # "err" /\ rcOut' = "err") =>
                 /\ rpc \in {"waitButton", "click", "waitHidden", "greyWait"}
                 /\ rpc' = "ret"
                 /\ rcClicks' = rcClicks
         ]_vars

C7_Witness ==
    /\ Len(popups) = 2
    /\ popups[1] = "hidden"
    /\ popups[2] = "clicked"
    /\ rcClicks = <<2>>
    /\ rpc = "ret"
    /\ rcOut = "err"
    /\ rcWaits = 2

\* A step of fillRow (not one of the host).
FillStep == fpc # "idle" /\ (fpc' # fpc \/ col' # col)

\* C8: a step of fillRow never changes an element that is hidden when the
\* step is taken; the only element whose value it changes is the first
\* visible one, at the time of the write, among those with the column's
\* prefix.
C8_WritesOnlyFirstVisible ==
    [][ FillStep =>
          \A p \in DOMAIN dom.fields : \A k \in 1..Len(dom.fields[p]) :
              \/ dom'.fields[p][k] = dom.fields[p][k]
              \/ /\ fpc = "fill"
                 /\ p = prefix
                 /\ dom.fields[p][k].vis
                 /\ \A j \in 1..(k - 1) : ~dom.fields[p][j].vis
                 /\ dom'.fields[p][k] = [dom.fields[p][k] EXCEPT !.val = ToStr(value)]
      ]_vars

C8_Witness ==
    /\ fpc = "ret"
    /\ fOut = "ok"
    /\ Len(dom.fields[EIN]) = 2
    /\ dom.fields[EIN][1] = [vis |-> FALSE, tag |-> "input", val |-> ""]
    /\ dom.fields[EIN][2] = [vis |-> TRUE, tag |-> "input", val |-> "42"]

\* The column fillRow is at has one of the three field-level anomalies.
Anomaly ==
    \/ /\ fpc = "head"
       /\ col <= Len(row)
       /\ \/ column \notin DOMAIN idPatterns
          \/ VisibleIdx(prefix) = {}
    \/ /\ fpc = "tag"
       /\ VisibleIdx(prefix) # {}
       /\ Matches(prefix)[First(prefix)].tag \notin validTags

\* C9: a column with no prefix mapping, with no visible element matching its
\* prefix, or whose first visible match is not an input, textarea or select is
\* skipped: nothing is written, nothing is thrown, fillRow goes on with the
\* next column; at the end of the columns fillRow returns normally and run()
\* goes on to the second handleRecaptcha and the submit, also when every
\* column was skipped.
C9_AnomaliesAreSkipped ==
    /\ [][ /\ (FillStep /\ Anomaly) =>
                 /\ fpc' = "head"
                 /\ col' = col + 1
                 /\ dom' = dom
                 /\ fOut' = "none"
           /\ (FillStep /\ fpc = "head" /\ col > Len(row)) =>
                 /\ fpc' = "ret"
                 /\ fOut' = "ok"
                 /\ skipped \cup written = 1..Len(row)
           /\ (pc = "fill" /\ pc' # pc /\ fOut = "ok") => pc' = "rc2"
           /\ (pc = "rc2" /\ pc' # pc /\ rcOut = "ok") => pc' = "submit"
         ]_vars

C9_Witness ==
    /\ pc = "rc3"
    /\ Last(log) = Ev("submit", 1, "ok")
    /\ skipped = 1..3
    /\ written = {}

\* C10: readExcelData fails when the file cannot be read and when the
\* workbook has no sheet of the configured name: it does not return a batch
\* (run() does not reach its loop), so a run over such an input never
\* reports normal completion.
C10_UnusableInputFails ==
    (~file.readable \/ SHEET_NAME \notin DOMAIN file.Sheets) =>
        /\ pc \in {"launch", "newPage", "goto", "login", "clickStart", "read",
                   "catch", "finally", "done"}
        /\ result # "completed"

====
